---- MODULE Spec2Model ----
(***************************************************************************)
(* Verification model of the kobun-app spaced-repetition core:             *)
(*   - nextSRS        (utils/srs.ts)      the SM-2 style stat transition   *)
(*   - shuffle family (utils/shuffle.ts)  Fisher-Yates                     *)
(*   - useQuizLogic   (hooks/useQuizLogic.ts) session composer and driver  *)
(*                                                                         *)
(* Numbers.  The easiness factor is kept in hundredths (2.5 is 250), so    *)
(* that the update formula                                                 *)
(*     ef + (0.1 - (5 - q) * (0.08 + (5 - q) * 0.02))                      *)
(* is exact integer arithmetic.  Instants are milliseconds.  A random draw *)
(* r in [0,1) is kept in tenths (0.8 is 8).                                *)
(***************************************************************************)
EXTENDS Integers, Sequences, FiniteSets, Bags, TLC

VARIABLES
    \* ---- quiz driver (useQuizLogic + App) ----
    pool,           \* modeReadyPool : sequence of question ids
    numQuestions,   \* numQuestions prop
    stats,          \* stats : id -> ReviewStat (function on the ids that have one)
    quizSet,        \* quizSet state
    qIdx,           \* qIdx state (0-based as in the source)
    feedback,       \* "" | "correct" | "incorrect"
    isAnswered,
    score,
    finished,
    timer,          \* pending auto-advance setTimeout callback, with its closure
    now,            \* the clock read by Date.now()
    lastOp,         \* the handler that ran last, and how it ended
    \* ---- nextSRS applied as a function ----
    srsPrev,        \* argument of the last nextSRS call
    srsQ,           \* quality of the last nextSRS call
    srsCur,         \* result of the last call (or the starting stat)
    srsTrail,       \* qualities applied since the starting stat
    srsStart,       \* the starting stat
    \* ---- shuffle applied as a function ----
    shOrig,         \* the sequence handed to the shuffle
    shArr,          \* contents of the argument array after the call
    shOut,          \* contents of the returned array
    shDraws,        \* the Math.random() results consumed, in tenths
                    \* (shuffleSeeded: the generator states drawn)
    shFn,           \* "none" | "shuffle" | "shuffleInPlace" | "shuffleSeeded"
    shHeap,         \* the arrays alive: reference -> contents
    shOutRef,       \* the reference the last call returned (0 before a call)
    sdSeed,         \* the seed of the shuffleSeeded calls that are compared
    sdOuts,         \* the results of shuffleSeeded(arr, sdSeed), in call order
    sdBetween,      \* other generator uses since the first of these calls
    rngLeft,        \* the state the generator created last was left in
    \* ---- persistence (localStorage item kobun.srs.v1) ----
    storage,        \* the stored item
    storeFails,     \* the localStorage calls that throw: subset of {"read", "write"}
    loaded,         \* the map the last load produced
    stOp            \* the persistence step that ran last, and how it ended

driverVars == <<pool, numQuestions, stats, quizSet, qIdx, feedback, isAnswered,
                score, finished, timer, now, lastOp>>
srsVars == <<srsPrev, srsQ, srsCur, srsTrail, srsStart>>
shVars == <<shOrig, shArr, shOut, shDraws, shFn, shHeap, shOutRef>>
sdVars == <<sdSeed, sdOuts, sdBetween, rngLeft>>
stVars == <<storage, storeFails, loaded, stOp>>
vars == <<driverVars, srsVars, shVars, sdVars, stVars>>

----------------------------------------------------------------------------
(* Bounds *)

MaxInterval == 20      \* largest interval (days) a nextSRS call of SpecSRS may produce
MaxChain == 3          \* nextSRS calls chained in SpecSRS
MaxDriverInterval == 6 \* largest interval (days) an answer in the driver may produce
MaxNow == 86400000     \* the clock stops advancing here (one day)
MaxShortTicks == 1     \* one-second clock steps modelled within one day
MaxLen == 3            \* longest sequence handed to the shuffles
MaxCount == 4          \* largest requested session length in SpecCompose
MaxCalls == 2          \* shuffleSeeded calls with the same seed that are compared
MaxBetween == 2        \* other generator uses between two such calls
MaxEntries == 1800     \* questions with a stat in SpecRestart
MaxReach == 6          \* nextSRS calls chained from an absent stat in SpecReach

----------------------------------------------------------------------------
(* Review-Stat model: utils/srs.ts *)

DayMs == 24 * 60 * 60 * 1000

Absent == [absent |-> TRUE]

\* variant: new items start at the floor of the easiness factor
defaultStat_FloorEf == [ef |-> 130, reps |-> 0, interval |-> 0, dueAt |-> 0, last |-> 0]

defaultStat == [ef |-> 250, reps |-> 0, interval |-> 0, dueAt |-> 0, last |-> 0]

Max(a, b) == IF a >= b THEN a ELSE b
Min(a, b) == IF a <= b THEN a ELSE b

\* the JavaScript number NaN, kept as an integer no computation here reaches
NaN == 0 - 999999

\* arithmetic and comparison as JavaScript does them when NaN is around:
\* an operation on NaN gives NaN, a comparison with NaN is false
JsMax(a, b) == IF a = NaN \/ b = NaN THEN NaN ELSE Max(a, b)
JsMin(a, b) == IF a = NaN \/ b = NaN THEN NaN ELSE Min(a, b)
JsAdd(a, b) == IF a = NaN \/ b = NaN THEN NaN ELSE a + b
JsMul(a, b) == IF a = NaN \/ b = NaN THEN NaN ELSE a * b
JsLess(a, b) == a # NaN /\ b # NaN /\ a < b

\* Math.round of x/100, x given in hundredths: floor(x/100 + 0.5)
RoundHundredths(x) == IF x = NaN THEN NaN ELSE (x + 50) \div 100

\* variant: Math.min(5, quality), no lower clamp
ClampQuality_NoFloor(quality) == JsMin(5, quality)

\* const q = Math.max(0, Math.min(5, quality))
ClampQuality(quality) == JsMax(0, JsMin(5, quality))

\* variant: the quadratic term of the update is dropped
EfDelta_NoQuadratic(q) == IF q = NaN THEN NaN ELSE 10 - (5 - q) * 8

\* 0.1 - (5 - q) * (0.08 + (5 - q) * 0.02), in hundredths
EfDelta(q) == IF q = NaN THEN NaN ELSE 10 - (5 - q) * (8 + (5 - q) * 2)

\* variant: only the upper clamp is applied
ClampEf_NoFloor(ef) == JsMin(250, ef)

\* s.ef = Math.max(1.3, Math.min(2.5, s.ef))
ClampEf(ef) == JsMax(130, JsMin(250, ef))

\* variant: from the third success on the interval is kept, not multiplied
SrsSchedule_NoGrowth(s, q) ==
    IF JsLess(q, 3)
    THEN [s EXCEPT !.reps = 0, !.interval = 1]
    ELSE LET r == s.reps + 1 IN
         IF r = 1 THEN [s EXCEPT !.reps = r, !.interval = 1]
         ELSE IF r = 2 THEN [s EXCEPT !.reps = r, !.interval = 6]
         ELSE [s EXCEPT !.reps = r]

\* variant: a failure resets the count but keeps the interval
SrsSchedule_KeepsInterval(s, q) ==
    IF JsLess(q, 3)
    THEN [s EXCEPT !.reps = 0]
    ELSE LET r == s.reps + 1 IN
         IF r = 1 THEN [s EXCEPT !.reps = r, !.interval = 1]
         ELSE IF r = 2 THEN [s EXCEPT !.reps = r, !.interval = 6]
         ELSE [s EXCEPT !.reps = r, !.interval = RoundHundredths(JsMul(s.interval, s.ef))]

\* the reps / interval branch of nextSRS, lines 25-39
SrsSchedule(s, q) ==
    IF JsLess(q, 3)
    THEN [s EXCEPT !.reps = 0, !.interval = 1]
    ELSE LET r == s.reps + 1 IN
         IF r = 1 THEN [s EXCEPT !.reps = r, !.interval = 1]
         ELSE IF r = 2 THEN [s EXCEPT !.reps = r, !.interval = 6]
         ELSE [s EXCEPT !.reps = r, !.interval = RoundHundredths(JsMul(s.interval, s.ef))]

\* variant: the easiness factor is updated before the interval is computed
nextSRS_EfFirst(prev, quality, t) ==
    LET s0 == IF prev = Absent THEN defaultStat ELSE prev
        q  == ClampQuality(quality)
        s1 == [s0 EXCEPT !.ef = ClampEf(JsAdd(s0.ef, EfDelta(q)))]
        s2 == SrsSchedule(s1, q)
        ms == JsMul(s2.interval, 24 * 60 * 60 * 1000)
    IN  [s2 EXCEPT !.last = t, !.dueAt = JsAdd(t, ms)]

\* variant: the due instant is the interval alone, not counted from the review
nextSRS_DueFromEpoch(prev, quality, t) ==
    LET s0 == IF prev = Absent THEN defaultStat ELSE prev
        q  == ClampQuality(quality)
        s1 == SrsSchedule(s0, q)
        s2 == [s1 EXCEPT !.ef = ClampEf(JsAdd(s1.ef, EfDelta(q)))]
        ms == JsMul(s2.interval, 24 * 60 * 60 * 1000)
    IN  [s2 EXCEPT !.last = t, !.dueAt = ms]

\* nextSRS(prev, quality) with Date.now() = t
nextSRS(prev, quality, t) ==
    LET s0 == IF prev = Absent THEN defaultStat ELSE prev
        q  == ClampQuality(quality)
        s1 == SrsSchedule(s0, q)
        s2 == [s1 EXCEPT !.ef = ClampEf(JsAdd(s1.ef, EfDelta(q)))]
        ms == JsMul(s2.interval, 24 * 60 * 60 * 1000)
    IN  [s2 EXCEPT !.last = t, !.dueAt = JsAdd(t, ms)]

\* the interval nextSRS would produce (used only to keep instants in range)
NextInterval(prev, quality) ==
    SrsSchedule(IF prev = Absent THEN defaultStat ELSE prev, ClampQuality(quality)).interval

----------------------------------------------------------------------------
(* Shuffle module: utils/shuffle.ts *)

\* a Math.random() result, in tenths
RandomTenths == 0 .. 9

\* variant: a one-way copy instead of an exchange
Swap_Overwrite(a, x, y) == [a EXCEPT ![x] = a[y]]

\* [a[x], a[y]] = [a[y], a[x]]   (x, y are 1-based here)
Swap(a, x, y) == [a EXCEPT ![x] = a[y], ![y] = a[x]]

\* variant: Math.floor(Math.random() * i), j never equal to i
SwapIndex_BelowI(r, i) == (r * i) \div 10

\* const j = Math.floor(Math.random() * (i + 1)), r the draw in tenths
SwapIndex(r, i) == (r * (i + 1)) \div 10

\* for (let i = result.length - 1; i > 0; i--) { j = ...; swap(i, j) }
\* i is the 0-based loop index, k the number of the next draw
RECURSIVE FisherYates(_, _, _, _)
FisherYates(result, i, draws, k) ==
    IF i > 0
    THEN FisherYates(Swap(result, i + 1, SwapIndex(draws[k], i) + 1), i - 1, draws, k + 1)
    ELSE result

\* shuffle(arr): copy, then Fisher-Yates on the copy
shuffle(arr, draws) ==
    IF Len(arr) <= 1 THEN arr
    ELSE FisherYates(arr, Len(arr) - 1, draws, 1)

\* shuffleInPlace(arr): Fisher-Yates on the argument itself
shuffleInPlace(arr, draws) == FisherYates(arr, Len(arr) - 1, draws, 1)

\* the draws a shuffle of n elements consumes: one per loop iteration
DrawsFor(n) == [1 .. Max(n - 1, 0) -> RandomTenths]

\* the reference of the array the caller passes in
ArgRef == 1

\* [...arr] without the copy: the same array under the same reference
Spread_Alias(heap, ref) == [heap |-> heap, ref |-> ref]

\* [...arr]: a new array with the contents of arr, under a fresh reference
Spread(heap, ref) ==
    LET fresh == Cardinality(DOMAIN heap) + 1
    IN  [heap |-> [r \in DOMAIN heap \cup {fresh} |->
                      IF r = fresh THEN heap[ref] ELSE heap[r]],
         ref  |-> fresh]

----------------------------------------------------------------------------
(* Seeded generator and shuffleSeeded: utils/shuffle.ts                    *)
(*                                                                         *)
(* JavaScript numbers are IEEE doubles.  state * 1103515245 can need 62    *)
(* bits, so the product and the sum are rounded to 53 significant bits     *)
(* (ties to even) before "% 2 ** 31" is taken; "%" keeps the sign of the   *)
(* dividend.  A non-negative integer below 2^62 is kept as [hi, lo] with   *)
(* value hi * 2^31 + lo and 0 <= lo < 2^31.                                *)

LcgMultiplier == 1103515245
LcgIncrement == 12345
\* 2 ** 31 - 1
LcgTop == 2147483647

\* the JavaScript value undefined (no input sequence contains it)
Undefined == 0 - 1

RECURSIVE BitLen(_)
BitLen(x) == IF x = 0 THEN 0 ELSE 1 + BitLen(x \div 2)

\* digit k of x in base 1024
Digit(x, k) == (x \div (1024 ^ k)) % 1024

\* column k of the schoolbook product of two four-digit numbers
ProductColumn(x, y, k) ==
    LET terms == {i \in 0 .. 3 : k - i >= 0 /\ k - i <= 3}
        RECURSIVE Sum(_)
        Sum(T) == IF T = {} THEN 0
                  ELSE LET i == CHOOSE t \in T : TRUE
                       IN  Digit(x, i) * Digit(y, k - i) + Sum(T \ {i})
    IN  Sum(terms)

\* the digits 0 .. 6 of x * y in base 1024, carries propagated
RECURSIVE ProductDigits(_, _, _, _)
ProductDigits(x, y, k, carry) ==
    IF k > 6 THEN <<>>
    ELSE LET t == ProductColumn(x, y, k) + carry
         IN  <<t % 1024>> \o ProductDigits(x, y, k + 1, t \div 1024)

\* the exact product of two non-negative numbers below 2^31
WideProduct(x, y) ==
    LET p == ProductDigits(x, y, 0, 0)
    IN  [lo |-> p[1] + 1024 * p[2] + 1048576 * p[3] + 1073741824 * (p[4] % 2),
         hi |-> (p[4] \div 2) + 512 * p[5] + 524288 * p[6] + 536870912 * p[7]]

\* v + c and v - c for a small c (v - c needs v >= c)
WideAdd(v, c) ==
    IF v.lo > LcgTop - c
    THEN [hi |-> v.hi + 1, lo |-> v.lo - (LcgTop - c) - 1]
    ELSE [hi |-> v.hi, lo |-> v.lo + c]

WideSub(v, c) ==
    IF v.lo >= c
    THEN [hi |-> v.hi, lo |-> v.lo - c]
    ELSE [hi |-> v.hi - 1, lo |-> v.lo + (LcgTop - c) + 1]

\* the nearest double: 53 significant bits, ties to even
RoundDouble(v) ==
    LET e == IF v.hi < 4194304 THEN 0 ELSE BitLen(v.hi) - 22
    IN  IF e = 0 THEN v
        ELSE LET unit == 2 ^ e
                 rem  == v.lo % unit
                 base == v.lo - rem
                 odd  == (v.lo \div unit) % 2 = 1
                 up   == rem > unit \div 2 \/ (rem = unit \div 2 /\ odd)
             IN  IF ~up THEN [hi |-> v.hi, lo |-> base]
                 ELSE IF base = LcgTop - unit + 1 THEN [hi |-> v.hi + 1, lo |-> 0]
                 ELSE [hi |-> v.hi, lo |-> base + unit]

\* state = (state * 1103515245 + 12345) % (2 ** 31)
LcgNext(state) ==
    IF state >= 0
    THEN RoundDouble(WideAdd(RoundDouble(WideProduct(state, LcgMultiplier)), LcgIncrement)).lo
    ELSE 0 - RoundDouble(WideSub(RoundDouble(WideProduct(0 - state, LcgMultiplier)),
                                 LcgIncrement)).lo

\* floor(m * n / 2 ** 31) and whether the division leaves a remainder, m >= 0
ScaledFloor(m, n) ==
    ((m \div 65536) * n + ((m % 65536) * n) \div 65536) \div 32768

ScaledExact(m, n) ==
    /\ ((m \div 65536) * n + ((m % 65536) * n) \div 65536) % 32768 = 0
    /\ ((m % 65536) * n) % 65536 = 0

\* const j = Math.floor(rng() * (i + 1)), rng() = state / 2 ** 31
SeededIndex(state, i) ==
    IF state >= 0 THEN ScaledFloor(state, i + 1)
    ELSE 0 - (ScaledFloor(0 - state, i + 1)
              + (IF ScaledExact(0 - state, i + 1) THEN 0 ELSE 1))

\* a[k] of a JavaScript array kept as a function on the property keys it has
ArrayGet(a, k) == IF k \in DOMAIN a THEN a[k] ELSE Undefined

\* [a[i], a[j]] = [a[j], a[i]] on such an array: a key outside 0 .. length-1
\* reads undefined and is created as a plain property
ArraySwap(a, i, j) ==
    [k \in DOMAIN a \cup {i, j} |->
        IF k = i THEN ArrayGet(a, j)
        ELSE IF k = j THEN ArrayGet(a, i)
        ELSE a[k]]

\* the loop of shuffleSeeded; run is [arr, state, drawn]
RECURSIVE SeededLoop(_, _)
SeededLoop(run, i) ==
    IF i > 0
    THEN LET s == LcgNext(run.state)
         IN  SeededLoop([arr   |-> ArraySwap(run.arr, i, SeededIndex(s, i)),
                         state |-> s,
                         drawn |-> Append(run.drawn, s)], i - 1)
    ELSE run

\* one state shared by all generators: a new generator continues the old one
createSeededRandom_SharedState(seed, left) == left

\* let state = seed: every createSeededRandom call has a state of its own;
\* left is the state the generator of an earlier call was left in
createSeededRandom(seed, left) == seed

\* shuffleSeeded(arr, seed): [out, state, drawn]
shuffleSeeded(arr, seed, left) ==
    IF Len(arr) <= 1
    THEN [out |-> arr, state |-> left, drawn |-> <<>>]
    ELSE LET run == SeededLoop([arr   |-> [k \in 0 .. Len(arr) - 1 |-> arr[k + 1]],
                                state |-> createSeededRandom(seed, left),
                                drawn |-> <<>>], Len(arr) - 1)
         IN  [out   |-> [k \in 1 .. Len(arr) |-> ArrayGet(run.arr, k - 1)],
              state |-> run.state,
              drawn |-> run.drawn]

----------------------------------------------------------------------------
(* Persistence: utils/validation.ts, utils/srs.ts, the App effects         *)
(*                                                                         *)
(* A stored JSON value keeps what the validator looks at.  A number is     *)
(* [kind |-> "number", val |-> v]: ef in hundredths, reps and interval in  *)
(* halves (3 is 1.5), so that non-integers are there, dueAt and last in    *)
(* milliseconds.                                                           *)

StatFields == {"ef", "reps", "interval", "dueAt", "last"}

JsonNumber(v) == [kind |-> "number", val |-> v]
JsonString == [kind |-> "string"]
JsonNull == [kind |-> "null"]
JsonArray == [kind |-> "array"]
JsonObject(m) == [kind |-> "object", map |-> m]
EmptyObject == JsonObject([k \in {} |-> JsonNull])

\* the item: not there, a text that is not JSON, or the text of a JSON value
NoItem == [kind |-> "none"]
Garbage == [kind |-> "garbage"]
JsonText(v) == [kind |-> "json", data |-> v]

\* typeof stat[f] === 'number'
IsNumber(stat, f) == f \in DOMAIN stat.map /\ stat.map[f].kind = "number"

\* the test validateSRSStats applies to one entry
EntryAccepted(value) ==
    /\ value.kind = "object"                \* value && typeof value === 'object'
    /\ \A f \in StatFields : IsNumber(value, f)
    /\ value.map["ef"].val >= 130 /\ value.map["ef"].val <= 250
    /\ value.map["reps"].val >= 0
    /\ value.map["interval"].val >= 0

\* validateSRSStats(data)
validateSRSStats(data) ==
    IF data.kind # "object" THEN EmptyObject.map
    ELSE [key \in {k \in DOMAIN data.map : EntryAccepted(data.map[k])} |-> data.map[key]]

\* jsonString.length for the text JSON.stringify writes: digits, signs and
\* fraction of a number kept in units of 1/unit
RECURSIVE Digits(_)
Digits(n) == IF n < 10 THEN 1 ELSE 1 + Digits(n \div 10)

ScaledChars(v, unit) ==
    LET a == IF v < 0 THEN 0 - v ELSE v
        frac == a % unit
    IN  (IF v < 0 THEN 1 ELSE 0) + Digits(a \div unit)
            + (IF frac = 0 THEN 0
               ELSE IF unit = 2 \/ frac % 10 = 0 THEN 2
               ELSE 3)

\* the text of one field value; a string is at least its two quotes
FieldChars(f, value) ==
    IF value.kind = "number"
    THEN ScaledChars(value.val,
                     IF f = "ef" THEN 100
                     ELSE IF f \in {"reps", "interval"} THEN 2
                     ELSE 1)
    ELSE IF value.kind = "string" THEN 2
    ELSE 4

\* "key":value for every member, chars[key] the length of its value, and
\* commas between them
MembersChars(chars) ==
    IF DOMAIN chars = {} THEN 0
    ELSE BagCardinality([k \in DOMAIN chars |-> Len(k) + 3 + chars[k] + 1]) - 1

ValueChars(value) ==
    IF value.kind = "object"
    THEN 2 + MembersChars([f \in DOMAIN value.map |-> FieldChars(f, value.map[f])])
    ELSE IF value.kind = "array" \/ value.kind = "string" THEN 2
    ELSE 4

JsonLength(v) ==
    IF v.kind = "object"
    THEN 2 + MembersChars([k \in DOMAIN v.map |-> ValueChars(v.map[k])])
    ELSE IF v.kind = "array" THEN 2
    ELSE 4

\* if (jsonString.length > 100000) return null
JsonCharLimit == 100000

\* safeJsonParse(jsonString) for a string that is there
safeJsonParse(raw) ==
    IF raw.kind = "json" /\ JsonLength(raw.data) <= JsonCharLimit
    THEN raw.data
    ELSE JsonNull

\* loadStats(): raw ? JSON.parse(raw) : {}, and {} when anything throws
loadStats(raw, fails) ==
    IF "read" \in fails \/ raw.kind # "json" THEN EmptyObject
    ELSE raw.data

\* JSON.stringify of one entry with the given field values
StatJson(ef, reps, interval, dueAt, last) ==
    JsonObject([f \in StatFields |->
        IF f = "ef" THEN JsonNumber(ef)
        ELSE IF f = "reps" THEN JsonNumber(reps)
        ELSE IF f = "interval" THEN JsonNumber(interval)
        ELSE IF f = "dueAt" THEN JsonNumber(dueAt)
        ELSE JsonNumber(last)])

\* JSON.stringify(stats) and the way back for entries validateSRSStats accepts
\* whose reps and interval are integers
Stringify(st) ==
    JsonObject([id \in DOMAIN st |->
        StatJson(st[id].ef, st[id].reps * 2, st[id].interval * 2, st[id].dueAt, st[id].last)])

FromJson(m) ==
    [id \in DOMAIN m |->
        [ef       |-> m[id].map["ef"].val,
         reps     |-> m[id].map["reps"].val \div 2,
         interval |-> m[id].map["interval"].val \div 2,
         dueAt    |-> m[id].map["dueAt"].val,
         last     |-> m[id].map["last"].val]]

\* the save effect of App, run after a render with the stat map st:
\* localStorage.setItem(SRS_KEY, JSON.stringify(stats)), nothing caught
SaveEffect(st) ==
    /\ IF "write" \in storeFails
       THEN /\ stOp' = "saveThrows"
            /\ UNCHANGED storage
       ELSE /\ stOp' = "saved"
            /\ storage' = JsonText(Stringify(st))
    /\ UNCHANGED <<storeFails, loaded>>

----------------------------------------------------------------------------
(* Session composer and quiz driver: hooks/useQuizLogic.ts, App.tsx *)

Items == {"a", "b", "c"}

\* the questions the driver is run on (ids double as the correct answer)
DriverPools == {<<>>, <<"a">>, <<"a", "b">>}

\* the question-count choices of QuizSettings (5, 10, 15, 20 in the source),
\* scaled to the size of the modelled pools
NumQuestionOptions == {1, 2}

\* setTimeout(..., 1000)
AutoAdvanceMs == 1000

EmptyStats == [id \in {} |-> defaultStat]

\* stats[id], undefined when the id has no entry
StatOf(st, id) == IF id \in DOMAIN st THEN st[id] ELSE Absent

\* variant: an item due exactly now is not yet due
RECURSIVE Classify_StrictDue(_, _, _, _, _)
Classify_StrictDue(p, st, t, k, acc) ==
    IF k > Len(p) THEN acc
    ELSE LET q == p[k]
             s == StatOf(st, q)
         IN  IF s = Absent
             THEN Classify_StrictDue(p, st, t, k + 1, [acc EXCEPT !.fresh = Append(@, q)])
             ELSE IF s.dueAt < t
             THEN Classify_StrictDue(p, st, t, k + 1, [acc EXCEPT !.due = Append(@, q)])
             ELSE Classify_StrictDue(p, st, t, k + 1, [acc EXCEPT !.other = Append(@, q)])

\* the partition loop of startSession, lines 388-398
RECURSIVE Classify(_, _, _, _, _)
Classify(p, st, t, k, acc) ==
    IF k > Len(p) THEN acc
    ELSE LET q == p[k]
             s == StatOf(st, q)
         IN  IF s = Absent
             THEN Classify(p, st, t, k + 1, [acc EXCEPT !.fresh = Append(@, q)])
             ELSE IF s.dueAt <= t
             THEN Classify(p, st, t, k + 1, [acc EXCEPT !.due = Append(@, q)])
             ELSE Classify(p, st, t, k + 1, [acc EXCEPT !.other = Append(@, q)])

Buckets(p, st, t) == Classify(p, st, t, 1, [due |-> <<>>, fresh |-> <<>>, other |-> <<>>])

\* Array.prototype.slice(0, end)
SliceTo(a, end) ==
    LET e == IF end < 0 THEN Max(Len(a) + end, 0) ELSE Min(end, Len(a))
    IN  SubSeq(a, 1, e)

\* variant: never-seen items are put ahead of the due ones
Ordered_FreshFirst(b, n, d1, d2, d3) ==
    SliceTo(shuffle(b.fresh, d2) \o shuffle(b.due, d1) \o shuffle(b.other, d3), n)

\* [...shuffle(due), ...shuffle(fresh), ...shuffle(other)].slice(0, numQuestions)
Ordered(b, n, d1, d2, d3) ==
    SliceTo(shuffle(b.due, d1) \o shuffle(b.fresh, d2) \o shuffle(b.other, d3), n)

NoTimer == [pending |-> FALSE, qIdx |-> 0, len |-> 0]

\* startSession() with the props p (modeReadyPool) and n (numQuestions)
Compose(p, n) ==
    IF Len(p) = 0
    THEN /\ quizSet' = <<>>
         /\ UNCHANGED <<qIdx, score, finished, isAnswered, feedback>>
    ELSE LET b == Buckets(p, stats, now) IN
         \E d1 \in DrawsFor(Len(b.due)), d2 \in DrawsFor(Len(b.fresh)),
            d3 \in DrawsFor(Len(b.other)) :
            /\ quizSet' = Ordered(b, n, d1, d2, d3)
            /\ qIdx' = 0
            /\ score' = 0
            /\ finished' = FALSE
            /\ isAnswered' = FALSE
            /\ feedback' = ""

\* the "new quiz set" buttons: onStartSession
StartSession ==
    /\ Compose(pool, numQuestions)
    /\ lastOp' = "startSession"
    /\ UNCHANGED <<pool, numQuestions, stats, timer, now>>
    /\ UNCHANGED <<srsVars, shVars, sdVars, stVars>>

\* setStats({ [id]: newStat }): the other entries are lost
PutStat_Alone(st, id, stat) == [k \in {id} |-> stat]

\* setStats(prev => ({ ...prev, [id]: newStat }))
PutStat(st, id, stat) ==
    [k \in DOMAIN st \cup {id} |-> IF k = id THEN stat ELSE st[k]]

\* variant: a correct answer is fed back as 5 (Easy)
JudgeQuality_Easy(correct) == IF correct THEN 5 ELSE 1

\* quality = 4 in the correct branch of judge, quality = 1 in the other
JudgeQuality(correct) == IF correct THEN 4 ELSE 1

\* judge(selected)
Judge(selected) ==
    /\ ~isAnswered                                   \* if (isAnswered) return
    /\ IF qIdx >= Len(quizSet)
       THEN \* currentQ is undefined: currentQ.lemma throws before any setState
            /\ lastOp' = "judgeThrows"
            /\ UNCHANGED <<stats, feedback, score, isAnswered, timer>>
            /\ UNCHANGED stVars
       ELSE LET currentQ == quizSet[qIdx + 1]
                correct  == (selected = currentQ)
                quality  == JudgeQuality(correct)
                prevStat == StatOf(stats, currentQ)
            IN  /\ NextInterval(prevStat, quality) <= MaxDriverInterval
                /\ stats' = PutStat(stats, currentQ, nextSRS(prevStat, quality, now))
                /\ isAnswered' = TRUE
                /\ IF correct
                   THEN /\ feedback' = "correct"
                        /\ score' = score + 1
                        /\ timer' = [pending |-> TRUE, qIdx |-> qIdx, len |-> Len(quizSet)]
                   ELSE /\ feedback' = "incorrect"
                        /\ UNCHANGED <<score, timer>>
                /\ lastOp' = "judge"
                /\ SaveEffect(stats')
    /\ UNCHANGED <<pool, numQuestions, quizSet, qIdx, finished, now>>
    /\ UNCHANGED <<srsVars, shVars, sdVars>>

\* judge(selected) on a question that is already answered: early return
JudgeIgnored ==
    /\ isAnswered
    /\ lastOp' = "judgeIgnored"
    /\ UNCHANGED <<pool, numQuestions, stats, quizSet, qIdx, feedback, isAnswered,
                   score, finished, timer, now>>
    /\ UNCHANGED <<srsVars, shVars, sdVars, stVars>>

\* qIdx + 1 < quizSet.length, one question too early
HasNext_OffByOne(idx, len) == idx + 2 < len

\* qIdx + 1 < quizSet.length: another question follows
HasNext(idx, len) == idx + 1 < len

\* nextQuestion() that drops the question it leaves from the list
NextQuestion_Dequeue ==
    /\ IF HasNext(qIdx, Len(quizSet))
       THEN /\ quizSet' = Tail(quizSet)
            /\ isAnswered' = FALSE
            /\ feedback' = ""
            /\ UNCHANGED finished
       ELSE /\ finished' = TRUE
            /\ UNCHANGED <<quizSet, isAnswered, feedback>>
    /\ lastOp' = "nextQuestion"
    /\ UNCHANGED <<pool, numQuestions, stats, qIdx, score, timer, now>>
    /\ UNCHANGED <<srsVars, shVars, sdVars, stVars>>

\* nextQuestion()
NextQuestion ==
    /\ IF HasNext(qIdx, Len(quizSet))
       THEN /\ qIdx' = qIdx + 1
            /\ isAnswered' = FALSE
            /\ feedback' = ""
            /\ UNCHANGED finished
       ELSE /\ finished' = TRUE
            /\ UNCHANGED <<qIdx, isAnswered, feedback>>
    /\ lastOp' = "nextQuestion"
    /\ UNCHANGED <<pool, numQuestions, stats, quizSet, score, timer, now>>
    /\ UNCHANGED <<srsVars, shVars, sdVars, stVars>>

\* the setTimeout callback of judge; qIdx and quizSet.length are the values
\* its closure captured, the updater functions act on the current state
TimerFires ==
    /\ timer.pending
    /\ IF HasNext(timer.qIdx, timer.len)
       THEN /\ qIdx' = qIdx + 1
            /\ isAnswered' = FALSE
            /\ feedback' = ""
            /\ UNCHANGED finished
       ELSE /\ finished' = TRUE
            /\ UNCHANGED <<qIdx, isAnswered, feedback>>
    /\ timer' = NoTimer
    /\ lastOp' = "timer"
    /\ UNCHANGED <<pool, numQuestions, stats, quizSet, score, now>>
    /\ UNCHANGED <<srsVars, shVars, sdVars, stVars>>

\* resetSRS(), confirmed
ResetSRS ==
    /\ stats' = EmptyStats
    /\ SaveEffect(stats')
    /\ lastOp' = "resetSRS"
    /\ UNCHANGED <<pool, numQuestions, quizSet, qIdx, feedback, isAnswered, score,
                   finished, timer, now>>
    /\ UNCHANGED <<srsVars, shVars, sdVars>>

\* setNumQuestions(n): the session key changes and the effect restarts the session
SetNumQuestions(n) ==
    /\ n # numQuestions
    /\ numQuestions' = n
    /\ Compose(pool, n)
    /\ lastOp' = "startSession"
    /\ UNCHANGED <<pool, stats, timer, now>>
    /\ UNCHANGED <<srsVars, shVars, sdVars, stVars>>

\* the data becomes ready, or the range / mode changes: a new pool, the session
\* key changes and the effect restarts the session
SetPool(p) ==
    /\ p # pool
    /\ pool' = p
    /\ Compose(p, numQuestions)
    /\ lastOp' = "startSession"
    /\ UNCHANGED <<numQuestions, stats, timer, now>>
    /\ UNCHANGED <<srsVars, shVars, sdVars, stVars>>

\* time passes
Tick(d) ==
    /\ now + d <= MaxNow
    /\ d = AutoAdvanceMs => (now % DayMs) \div AutoAdvanceMs < MaxShortTicks
    /\ now' = now + d
    /\ lastOp' = "tick"
    /\ UNCHANGED <<pool, numQuestions, stats, quizSet, qIdx, feedback, isAnswered,
                   score, finished, timer>>
    /\ UNCHANGED <<srsVars, shVars, sdVars, stVars>>

SrsIdle ==
    /\ srsPrev = Absent /\ srsQ = 0 /\ srsCur = Absent
    /\ srsTrail = <<>> /\ srsStart = Absent

ShIdle ==
    /\ shOrig = <<>> /\ shArr = <<>> /\ shOut = <<>>
    /\ shDraws = <<>> /\ shFn = "none"
    /\ shHeap = [r \in {ArgRef} |-> <<>>] /\ shOutRef = 0

SdIdle ==
    /\ sdSeed = 0 /\ sdOuts = <<>> /\ sdBetween = 0 /\ rngLeft = 0

StIdle ==
    /\ storage = NoItem /\ storeFails = {} /\ loaded = EmptyObject /\ stOp = "none"

\* the useState defaults of useQuizLogic
SessionIdle ==
    /\ quizSet = <<>>
    /\ qIdx = 0
    /\ feedback = ""
    /\ isAnswered = FALSE
    /\ score = 0
    /\ finished = FALSE
    /\ timer = NoTimer
    /\ lastOp = "init"

DriverIdle ==
    /\ pool = <<>>
    /\ numQuestions = 2
    /\ stats = EmptyStats
    /\ now = 0
    /\ SessionIdle

\* App mounted on an empty store: the save effect has written "{}"
StMounted ==
    /\ storage = JsonText(Stringify(EmptyStats)) /\ storeFails = {}
    /\ loaded = EmptyObject /\ stOp = "saved"

\* the state after the first render of App: no data yet, no stats loaded
Init == DriverIdle /\ SrsIdle /\ ShIdle /\ SdIdle /\ StMounted

Next ==
    \/ StartSession
    \/ \E selected \in Items : Judge(selected)
    \/ JudgeIgnored
    \/ NextQuestion
    \/ TimerFires
    \/ ResetSRS
    \/ \E n \in NumQuestionOptions : SetNumQuestions(n)
    \/ \E p \in DriverPools : SetPool(p)
    \/ \E d \in {AutoAdvanceMs, DayMs} : Tick(d)

Spec == Init /\ [][Next]_vars

----------------------------------------------------------------------------
(* nextSRS as a function: chains of calls from a starting stat *)

Qualities == -1 .. 6

SrsStarts ==
    {Absent} \cup [ef : {120, 130, 196, 250, 300}, reps : {0, 1, 2, 5},
                   interval : {0, 6, 20}, dueAt : {0}, last : {0}]

InitSRS ==
    /\ pool = <<>>
    /\ numQuestions = 2
    /\ stats = EmptyStats
    /\ SessionIdle
    /\ now \in {0, AutoAdvanceMs}
    /\ srsStart \in SrsStarts
    /\ srsCur = srsStart
    /\ srsPrev = Absent
    /\ srsQ = 0
    /\ srsTrail = <<>>
    /\ ShIdle /\ SdIdle /\ StIdle

\* srsCur = nextSRS(srsCur, quality)
Advance(quality) ==
    /\ Len(srsTrail) < MaxChain
    /\ NextInterval(srsCur, quality) <= MaxInterval
    /\ srsPrev' = srsCur
    /\ srsQ' = quality
    /\ srsCur' = nextSRS(srsCur, quality, now)
    /\ srsTrail' = Append(srsTrail, quality)
    /\ UNCHANGED <<srsStart, driverVars, shVars, sdVars, stVars>>

NextSRS == \E quality \in Qualities : Advance(quality)

SpecSRS == InitSRS /\ [][NextSRS]_vars

----------------------------------------------------------------------------
(* the stats nextSRS reaches from an absent stat with the qualities in use *)

\* 1 (Again) / 3 (Hard) / 4 (Good) / 5 (Easy)
AnswerQualities == {1, 3, 4, 5}

InitReach ==
    /\ pool = <<>>
    /\ numQuestions = 2
    /\ stats = EmptyStats
    /\ SessionIdle
    /\ now = 0
    /\ SrsIdle
    /\ ShIdle /\ SdIdle /\ StIdle

\* srsCur = nextSRS(srsCur, quality), chained further than in SpecSRS
Review(quality) ==
    /\ Len(srsTrail) < MaxReach
    /\ NextInterval(srsCur, quality) <= MaxInterval
    /\ srsPrev' = srsCur
    /\ srsQ' = quality
    /\ srsCur' = nextSRS(srsCur, quality, now)
    /\ srsTrail' = Append(srsTrail, quality)
    /\ UNCHANGED <<srsStart, driverVars, shVars, sdVars, stVars>>

NextReach == \E quality \in AnswerQualities : Review(quality)

SpecReach == InitReach /\ [][NextReach]_vars

----------------------------------------------------------------------------
(* nextSRS handed a quality that is not a proper number *)

MalformedQualities == {NaN, 1, 4}

NextMalformed == \E quality \in MalformedQualities : Advance(quality)

SpecMalformed == InitSRS /\ [][NextMalformed]_vars

----------------------------------------------------------------------------
(* the shuffles as functions *)

RECURSIVE SeqsUpTo(_, _)
SeqsUpTo(S, n) ==
    IF n = 0 THEN {<<>>}
    ELSE LET shorter == SeqsUpTo(S, n - 1)
         IN  shorter \cup {Append(a, x) : a \in {b \in shorter : Len(b) = n - 1}, x \in S}

ShuffleInputs == SeqsUpTo({1, 2, 3}, MaxLen)

\* an array of the caller, no shuffle called yet
ShStart ==
    /\ shOrig \in ShuffleInputs
    /\ shArr = shOrig
    /\ shOut = <<>>
    /\ shDraws = <<>>
    /\ shFn = "none"
    /\ shHeap = [r \in {ArgRef} |-> shOrig]
    /\ shOutRef = 0

InitShuffle == DriverIdle /\ SrsIdle /\ SdIdle /\ StIdle /\ ShStart

\* out = shuffle(arr): result = [...arr], Fisher-Yates on result, return result
CallShuffle ==
    /\ shFn = "none"
    /\ \E d \in DrawsFor(Len(shOrig)) :
         LET copy  == Spread(shHeap, ArgRef)
             after == [copy.heap EXCEPT ![copy.ref] = shuffle(copy.heap[copy.ref], d)]
         IN  /\ shHeap' = after
             /\ shOutRef' = copy.ref
             /\ shOut' = after[copy.ref]
             /\ shArr' = after[ArgRef]
             /\ shDraws' = d
    /\ shFn' = "shuffle"
    /\ UNCHANGED <<shOrig, driverVars, srsVars, sdVars, stVars>>

\* out = shuffleInPlace(arr): Fisher-Yates on arr, return arr
CallShuffleInPlace ==
    /\ shFn = "none"
    /\ \E d \in DrawsFor(Len(shOrig)) :
         LET after == [shHeap EXCEPT ![ArgRef] = shuffleInPlace(shHeap[ArgRef], d)]
         IN  /\ shHeap' = after
             /\ shOutRef' = ArgRef
             /\ shOut' = after[ArgRef]
             /\ shArr' = after[ArgRef]
             /\ shDraws' = d
    /\ shFn' = "shuffleInPlace"
    /\ UNCHANGED <<shOrig, driverVars, srsVars, sdVars, stVars>>

NextShuffle == CallShuffle \/ CallShuffleInPlace

SpecShuffle == InitShuffle /\ [][NextShuffle]_vars

----------------------------------------------------------------------------
(* the shuffles on five elements, every sequence of four draws *)

FiveInputs == {<<1, 2, 3, 4, 5>>, <<5, 4, 3, 2, 1>>}

InitFive ==
    /\ DriverIdle /\ SrsIdle /\ SdIdle /\ StIdle
    /\ shOrig \in FiveInputs
    /\ shArr = shOrig
    /\ shOut = <<>>
    /\ shDraws = <<>>
    /\ shFn = "none"
    /\ shHeap = [r \in {ArgRef} |-> shOrig]
    /\ shOutRef = 0

SpecFive == InitFive /\ [][NextShuffle]_vars

----------------------------------------------------------------------------
(* shuffleSeeded called repeatedly, other generator uses in between *)

SeededSeeds == {0 - 2, 0 - 1, 0, 1, 42}
OtherSeeds == {0 - 3, 7}
OtherArrays == {<<1, 2>>, <<1, 2, 3>>}

InitSeeded ==
    /\ DriverIdle /\ SrsIdle /\ ShStart /\ StIdle
    /\ sdSeed \in SeededSeeds
    /\ sdOuts = <<>>
    /\ sdBetween = 0
    /\ rngLeft = 0

\* out = shuffleSeeded(arr, seed)
CallShuffleSeeded ==
    /\ shFn \in {"none", "shuffleSeeded"}
    /\ Len(sdOuts) < MaxCalls
    /\ LET copy  == Spread(shHeap, ArgRef)
           run   == shuffleSeeded(copy.heap[copy.ref], sdSeed, rngLeft)
           after == [copy.heap EXCEPT ![copy.ref] = run.out]
       IN  /\ shHeap' = after
           /\ shOutRef' = copy.ref
           /\ shOut' = after[copy.ref]
           /\ shArr' = after[ArgRef]
           /\ shDraws' = run.drawn
           /\ rngLeft' = run.state
           /\ sdOuts' = Append(sdOuts, run.out)
    /\ shFn' = "shuffleSeeded"
    /\ UNCHANGED <<shOrig, sdSeed, sdBetween, driverVars, srsVars, stVars>>

\* shuffleSeeded(other, seed2) between two compared calls, result dropped
OtherShuffleSeeded(arr, seed) ==
    /\ Len(sdOuts) >= 1
    /\ sdBetween < MaxBetween
    /\ rngLeft' = shuffleSeeded(arr, seed, rngLeft).state
    /\ sdBetween' = sdBetween + 1
    /\ UNCHANGED <<sdSeed, sdOuts, shVars, driverVars, srsVars, stVars>>

\* const rng = createSeededRandom(seed2); rng() between two compared calls
DrawSeeded(seed) ==
    /\ Len(sdOuts) >= 1
    /\ sdBetween < MaxBetween
    /\ rngLeft' = LcgNext(createSeededRandom(seed, rngLeft))
    /\ sdBetween' = sdBetween + 1
    /\ UNCHANGED <<sdSeed, sdOuts, shVars, driverVars, srsVars, stVars>>

NextSeeded ==
    \/ CallShuffle
    \/ CallShuffleInPlace
    \/ CallShuffleSeeded
    \/ \E a \in OtherArrays, s \in OtherSeeds : OtherShuffleSeeded(a, s)
    \/ \E s \in OtherSeeds : DrawSeeded(s)

SpecSeeded == InitSeeded /\ [][NextSeeded]_vars

----------------------------------------------------------------------------
(* one session worked through by a learner: no other session is started,   *)
(* every presented question is answered, "next" is pressed after each      *)
(* incorrect answer and the auto-advance timer runs after each correct one *)

LearnerPools == {<<"a">>, <<"a", "b">>, <<"b", "a", "c">>}

\* the lists startSession can produce from (p, st, n) at instant t
Sessions(p, st, t, n) ==
    LET b == Buckets(p, st, t)
    IN  {Ordered(b, n, d1, d2, d3) :
            d1 \in DrawsFor(Len(b.due)), d2 \in DrawsFor(Len(b.fresh)),
            d3 \in DrawsFor(Len(b.other))}

\* the first session of a run has just been started
InitLearner ==
    /\ SrsIdle /\ ShIdle /\ SdIdle /\ StIdle
    /\ pool \in LearnerPools
    /\ numQuestions \in 1 .. MaxLen
    /\ stats = EmptyStats
    /\ now = 0
    /\ quizSet \in Sessions(pool, stats, now, numQuestions)
    /\ qIdx = 0
    /\ feedback = ""
    /\ isAnswered = FALSE
    /\ score = 0
    /\ finished = FALSE
    /\ timer = NoTimer
    /\ lastOp = "startSession"

\* an answer button of QuizQuestion, rendered while !finished && currentQuestion
LearnerJudge(selected) ==
    /\ ~finished
    /\ qIdx < Len(quizSet)
    /\ Judge(selected)

\* the "next question" button of QuizCard, rendered after an incorrect answer
LearnerNext ==
    /\ ~finished
    /\ qIdx < Len(quizSet)
    /\ isAnswered
    /\ feedback = "incorrect"
    /\ NextQuestion

NextLearner ==
    \/ \E selected \in Items : LearnerJudge(selected)
    \/ LearnerNext
    \/ TimerFires

\* the learner keeps answering and the browser runs a due timer callback
SpecLearner == InitLearner /\ [][NextLearner]_vars /\ WF_vars(NextLearner)

----------------------------------------------------------------------------
(* loading as a function of the stored item *)

\* an entry with field f turned into a string, and one with f left out
WithString(e, f) == JsonObject([e.map EXCEPT ![f] = JsonString])
Without(e, f) == JsonObject([g \in DOMAIN e.map \ {f} |-> e.map[g]])

\* entries as nextSRS leaves them, and entries broken in one respect each
StoredEntries ==
    LET good == StatJson(250, 2, 2, DayMs, 0)
    IN  { good,
          StatJson(236, 0, 0, AutoAdvanceMs, AutoAdvanceMs),
          StatJson(120, 2, 2, DayMs, 0),
          StatJson(260, 2, 2, DayMs, 0),
          StatJson(250, 0 - 2, 2, DayMs, 0),
          StatJson(250, 3, 2, DayMs, 0),
          StatJson(250, 2, 3, DayMs + DayMs \div 2, 0),
          StatJson(250, 2, 0 - 2, 0 - DayMs, 0),
          StatJson(250, 2, 2, 5, 0),
          WithString(good, "ef"),
          Without(good, "last"),
          JsonNull }

StoredMaps ==
    UNION {[K -> StoredEntries] : K \in SUBSET {"a", "b"}}

StoredItems ==
    {NoItem, Garbage, JsonText(JsonArray)} \cup {JsonText(JsonObject(m)) : m \in StoredMaps}

InitLoad ==
    /\ DriverIdle /\ SrsIdle /\ ShIdle /\ SdIdle
    /\ storage \in StoredItems
    /\ storeFails = {}
    /\ loaded = EmptyObject
    /\ stOp = "none"

\* the load effect of App up to its setStats call
LoadEffect ==
    /\ stOp = "none"
    /\ IF storage.kind = "none"
       THEN loaded' = EmptyObject                       \* if (raw) is false
       ELSE loaded' = JsonObject(validateSRSStats(safeJsonParse(storage)))
    /\ stOp' = "loadEffect"
    /\ UNCHANGED <<storage, storeFails, driverVars, srsVars, shVars, sdVars>>

\* loaded = loadStats()
CallLoadStats ==
    /\ stOp = "none"
    /\ loaded' = loadStats(storage, storeFails)
    /\ stOp' = "loadStats"
    /\ UNCHANGED <<storage, storeFails, driverVars, srsVars, shVars, sdVars>>

NextLoad == LoadEffect \/ CallLoadStats

SpecLoad == InitLoad /\ [][NextLoad]_vars

----------------------------------------------------------------------------
(* the App on a store that may fail: mount, then the quiz driver *)

\* stored entries whose reps and interval are integers where they are numbers
StoreEntries ==
    LET good == StatJson(250, 2, 2, DayMs, 0)
    IN  { good,
          StatJson(236, 0, 0, 0, 0),
          StatJson(120, 2, 2, DayMs, 0),
          StatJson(250, 2, 2, 5, 0),
          WithString(good, "ef"),
          JsonNull }

StoreItems ==
    {NoItem, Garbage, JsonText(JsonArray)}
        \cup {JsonText(JsonObject(m)) :
                 m \in UNION {[K -> StoreEntries] : K \in SUBSET {"a", "b"}}}

InitStore ==
    /\ SrsIdle /\ ShIdle /\ SdIdle
    /\ pool = <<"a", "b">>
    /\ numQuestions = 2
    /\ stats = EmptyStats
    /\ now = 0
    /\ SessionIdle
    /\ storage \in StoreItems
    /\ storeFails \in SUBSET {"read", "write"}
    /\ loaded = EmptyObject
    /\ stOp = "none"

\* the first commit of App: the load effect, the save effect with the stats
\* of the first render ({}), then the render with the loaded stats and its
\* save effect
MountCommit ==
    /\ LET validated ==
               IF "read" \in storeFails \/ storage.kind = "none"
               THEN EmptyObject.map                \* catch: setStats({}) / no raw
               ELSE validateSRSStats(safeJsonParse(storage))
       IN  /\ loaded' = JsonObject(validated)
           /\ IF "write" \in storeFails
              THEN \* the first save effect throws out of the commit
                   /\ stOp' = "saveThrows"
                   /\ UNCHANGED <<storage, stats>>
              ELSE /\ stats' = FromJson(validated)
                   /\ storage' = JsonText(Stringify(stats'))
                   /\ stOp' = "saved"
    /\ lastOp' = "mount"
    /\ UNCHANGED <<storeFails, pool, numQuestions, quizSet, qIdx, feedback, isAnswered,
                   score, finished, timer, now>>
    /\ UNCHANGED <<srsVars, shVars, sdVars>>

AppMount == stOp = "none" /\ MountCommit

\* the component tree is there: mounted, and no effect has thrown
AppAlive == stOp = "saved"

\* saveStats(stats) of utils/srs.ts instead of the effect: the error is caught
CallSaveStats ==
    /\ stOp = "loadStats"
    /\ IF "write" \in storeFails
       THEN /\ stOp' = "saveStatsWarned"
            /\ UNCHANGED storage
       ELSE /\ stOp' = "saveStats"
            /\ storage' = JsonText(loaded)
    /\ UNCHANGED <<storeFails, loaded, driverVars, srsVars, shVars, sdVars>>

NextStore ==
    \/ AppMount
    \/ AppAlive /\ StartSession
    \/ AppAlive /\ qIdx < Len(quizSet) /\ ~finished
          /\ \E selected \in Items : Judge(selected)
    \/ AppAlive /\ NextQuestion
    \/ AppAlive /\ TimerFires
    \/ AppAlive /\ ResetSRS
    \/ CallLoadStats
    \/ CallSaveStats

SpecStore == InitStore /\ [][NextStore]_vars

----------------------------------------------------------------------------
(* the App closed and opened again on the stat map it has saved *)

\* the ids of n questions
Ids(n) == {ToString(i) : i \in 1 .. n}

\* what nextSRS leaves for a question answered at most three times
ProducedStats ==
    LET first(q, t) == nextSRS(Absent, q, t)
        second(q, t) == nextSRS(first(4, 0), q, t)
    IN  {first(q, t) : q \in {1, 4}, t \in {0, AutoAdvanceMs}}
            \cup {second(q, t) : q \in {1, 4}, t \in {AutoAdvanceMs, DayMs}}
            \cup {nextSRS(second(4, DayMs), 4, 7 * DayMs)}

\* every map on up to two questions, and the maps of many questions that
\* were all answered alike
ProducedMaps ==
    UNION {[Ids(n) -> ProducedStats] : n \in 0 .. 2}
        \cup {[id \in Ids(n) |-> e] : n \in {MaxEntries \div 2, MaxEntries},
                                        e \in ProducedStats}

\* the App is running and its save effect has written the stats
InitRestart ==
    /\ SrsIdle /\ ShIdle /\ SdIdle
    /\ pool = <<>>
    /\ numQuestions = 2
    /\ stats \in ProducedMaps
    /\ now = 0
    /\ SessionIdle
    /\ storage = JsonText(Stringify(stats))
    /\ storeFails = {}
    /\ loaded = EmptyObject
    /\ stOp = "saved"

\* the page is closed and opened: a new App mounts on the stored item
Restart == AppAlive /\ MountCommit

NextRestart == Restart

SpecRestart == InitRestart /\ [][NextRestart]_vars

----------------------------------------------------------------------------
(* startSession as a function of (pool, stats, numQuestions, now) *)

\* sequences without repetition over the set S (ids are unique within a pool)
RECURSIVE Arrangements(_)
Arrangements(S) ==
    IF S = {} THEN {<<>>}
    ELSE UNION {{<<x>> \o a : a \in Arrangements(S \ {x})} : x \in S}

ComposePools == UNION {Arrangements(S) : S \in SUBSET Items}

\* stats left by one Good answer given at the instant t
ComposeStats ==
    UNION {[S -> {nextSRS(Absent, 4, t) : t \in {0, AutoAdvanceMs, DayMs}}] : S \in SUBSET Items}

InitCompose ==
    /\ pool \in ComposePools
    /\ numQuestions \in (0 - MaxCount) .. MaxCount
    /\ stats \in ComposeStats
    /\ now \in {DayMs, DayMs + AutoAdvanceMs}
    /\ SessionIdle
    /\ SrsIdle /\ ShIdle /\ SdIdle /\ StIdle

NextCompose == StartSession

SpecCompose == InitCompose /\ [][NextCompose]_vars

----------------------------------------------------------------------------
(* Properties of nextSRS, checked under SpecSRS *)

\* the stat nextSRS started from: prev ?? defaultStat, written out
SrsBase == IF srsPrev = Absent
           THEN [ef |-> 250, reps |-> 0, interval |-> 0]
           ELSE srsPrev

\* C1: whatever the previous stat (or none) and whatever the integer quality,
\* in or out of 0..5, the returned stat has 1.3 <= ef <= 2.5, along any chain
\* of answers; an item at the 1.3 floor stays at exactly 1.3 on a failure.
C1_EfBound ==
    srsTrail # <<>> =>
        /\ srsCur.ef >= 130
        /\ srsCur.ef <= 250
        /\ (SrsBase.ef = 130 /\ srsQ < 3) => srsCur.ef = 130

\* scenario 4 of the specification: {ef 1.3, reps 5, interval 20} answered with 1
C1_Witness ==
    /\ srsTrail # <<>>
    /\ srsPrev # Absent
    /\ srsPrev.ef = 130 /\ srsPrev.reps = 5 /\ srsPrev.interval = 20
    /\ srsQ = 1
    /\ srsCur.ef = 130 /\ srsCur.reps = 0 /\ srsCur.interval = 1

\* C2: an answer whose clamped quality is below 3 returns reps = 0 and
\* interval = 1, however well learned the item was.
C2_FailureReset ==
    (srsTrail # <<>> /\ srsQ < 3) => (srsCur.reps = 0 /\ srsCur.interval = 1)

C2_Witness ==
    /\ srsTrail # <<>>
    /\ srsPrev # Absent
    /\ srsPrev.reps = 5 /\ srsPrev.interval = 20
    /\ srsQ = 2
    /\ srsCur.reps = 0 /\ srsCur.interval = 1

\* C3: on a success (clamped quality >= 3) reps grows by exactly 1 and the
\* interval is 1 for a new count of 1, 6 for a new count of 2, and otherwise
\* round(previous interval x previous ef), the ef being the one from before
\* this answer's update.
C3_SuccessInterval ==
    (srsTrail # <<>> /\ srsQ >= 3) =>
        /\ srsCur.reps = SrsBase.reps + 1
        /\ srsCur.reps = 1 => srsCur.interval = 1
        /\ srsCur.reps = 2 => srsCur.interval = 6
        /\ srsCur.reps \notin {1, 2} =>
              srsCur.interval = (SrsBase.interval * SrsBase.ef + 50) \div 100

\* a third success answered Hard: round(6 x 2.5) = 15, not round(6 x 2.36) = 14
C3_Witness ==
    /\ srsTrail # <<>>
    /\ srsPrev # Absent
    /\ srsPrev.reps = 2 /\ srsPrev.interval = 6 /\ srsPrev.ef = 250
    /\ srsQ = 3
    /\ srsCur.reps = 3 /\ srsCur.interval = 15 /\ srsCur.ef = 236

\* the unclamped change of the easiness factor, as the specification tabulates it
EfChangeTable(q) ==
    CASE q = 5 -> 10
      [] q = 4 -> 0
      [] q = 3 -> 0 - 14
      [] q = 2 -> 0 - 32
      [] q = 1 -> 0 - 54
      [] q = 0 -> 0 - 80

C20_QualityClamped ==
    srsTrail # <<>> =>
        /\ srsQ < 0 => srsCur = nextSRS(srsPrev, 0, now)
        /\ srsQ > 5 => srsCur = nextSRS(srsPrev, 5, now)

\* a first answer of quality 6 (as 5: ef stays 2.5, interval 1), then one of
\* quality -1 (as 0: ef 1.7, reps 0)
C20_Witness ==
    /\ srsStart = Absent
    /\ srsTrail = <<6, 0 - 1>>
    /\ srsPrev.ef = 250 /\ srsPrev.reps = 1 /\ srsPrev.interval = 1
    /\ srsCur.ef = 170 /\ srsCur.reps = 0 /\ srsCur.interval = 1

\* C24: on a stat reached from an absent one by nextSRS calls, a success
\* (quality >= 3) never returns a smaller interval than the stat had, and a
\* strictly larger one when the returned reps is at least 2 (checked under
\* SpecReach).
C24_SuccessLengthens ==
    (srsTrail # <<>> /\ srsQ >= 3) =>
        /\ srsCur.interval >= SrsBase.interval
        /\ srsCur.reps >= 2 => srsCur.interval > SrsBase.interval

\* Good, Good, Again, Hard, Hard, Hard: the last success takes 6 days to 10
C24_Witness ==
    /\ srsTrail = <<4, 4, 1, 3, 3, 3>>
    /\ srsPrev.interval = 6 /\ srsPrev.ef = 168
    /\ srsCur.interval = 10 /\ srsCur.reps = 3

\* C21: a quality of NaN is coerced into 0 .. 5 before the arithmetic, so the
\* stat nextSRS returns for it has a numeric ef in [1.3, 2.5], reps >= 0 and
\* a numeric interval >= 0 (checked under SpecMalformed).
C21_MalformedCoerced ==
    (srsTrail # <<>> /\ srsQ = NaN) =>
        /\ ClampQuality(srsQ) \in 0 .. 5
        /\ srsCur.ef # NaN /\ srsCur.ef >= 130 /\ srsCur.ef <= 250
        /\ srsCur.reps # NaN /\ srsCur.reps >= 0
        /\ srsCur.interval # NaN /\ srsCur.interval >= 0

----------------------------------------------------------------------------
(* Properties of the shuffles, checked under SpecShuffle *)

Occurrences(a, x) == Cardinality({i \in 1 .. Len(a) : a[i] = x})

\* C10: whatever the random draws, shuffle(s) and shuffleInPlace(s) return a
\* sequence of the same length and with the same multiset of elements as s.
C10_Permutation ==
    shFn # "none" =>
        /\ Len(shOut) = Len(shOrig)
        /\ \A x \in {1, 2, 3} : Occurrences(shOut, x) = Occurrences(shOrig, x)

\* a sequence with a duplicate, returned in another order
C10_Witness ==
    /\ shFn = "shuffleInPlace"
    /\ shOrig = <<1, 1, 2>>
    /\ shOut = <<2, 1, 1>>

\* positions x and y (0-based) of a exchanged, written out
Exchanged(a, x, y) ==
    [k \in 1 .. Len(a) |-> IF k = x + 1 THEN a[y + 1]
                           ELSE IF k = y + 1 THEN a[x + 1] ELSE a[k]]

\* the four swaps on five elements: i = 4, 3, 2, 1 with j = floor(r * (i + 1)),
\* r being the next draw (in tenths)
FourSwaps(a, d) ==
    LET a4 == Exchanged(a, 4, (d[1] * 5) \div 10)
        a3 == Exchanged(a4, 3, (d[2] * 4) \div 10)
        a2 == Exchanged(a3, 2, (d[3] * 3) \div 10)
    IN  Exchanged(a2, 1, (d[4] * 2) \div 10)

----------------------------------------------------------------------------
(* Properties of shuffleSeeded and of the three shuffles as callers see    *)
(* them, checked under SpecSeeded                                          *)

SamePermutation(a, b) ==
    /\ Len(a) = Len(b)
    /\ \A x \in {1, 2, 3} : Occurrences(a, x) = Occurrences(b, x)

\* C11: for every integer seed, zero and negative seeds included,
\* shuffleSeeded(s, seed) returns a permutation of s, every value its
\* generator draws lying in [0, 1) (a drawn state lying in 0 .. 2^31 - 1).
C11_SeededPermutation ==
    shFn = "shuffleSeeded" =>
        /\ SamePermutation(shOut, shOrig)
        /\ \A k \in DOMAIN shDraws : shDraws[k] >= 0 /\ shDraws[k] <= LcgTop

\* C12: two calls shuffleSeeded(s, k) with the same s and k return the same
\* sequence, whatever other shuffles and generator draws happen in between.
C12_SeedDeterminism ==
    \A i, j \in DOMAIN sdOuts : sdOuts[i] = sdOuts[j]

\* two calls with seed 42 that reorder the sequence, two other generator
\* uses between them
C12_Witness ==
    /\ Len(sdOuts) = 2
    /\ sdBetween = 2
    /\ sdSeed = 42
    /\ shOrig = <<1, 2, 3>>
    /\ sdOuts[2] = <<1, 3, 2>>

\* C13: shuffle and shuffleSeeded leave the argument array as it was and
\* return another array object; shuffleInPlace returns the argument array.
C13_Aliasing ==
    /\ shFn \in {"shuffle", "shuffleSeeded"} =>
          /\ shHeap[ArgRef] = shOrig
          /\ shArr = shOrig
          /\ shOutRef # ArgRef
    /\ shFn = "shuffleInPlace" =>
          /\ shOutRef = ArgRef
          /\ shOut = shHeap[ArgRef]

\* a shuffle that returned another order and left its argument alone,
\* here for a one-element array too (the early return copies as well)
C13_Witness ==
    /\ shFn = "shuffle"
    /\ shOrig = <<1, 2, 3>>
    /\ shOut = <<3, 1, 2>>
    /\ shArr = <<1, 2, 3>>
    /\ shOutRef = 2

----------------------------------------------------------------------------
(* Properties of startSession, checked under SpecCompose *)

HasStat(id) == id \in DOMAIN stats

\* the bucket of an item as the specification defines it: 0 Due, 1 Fresh, 2 Other
Priority(id) ==
    IF ~HasStat(id) THEN 1
    ELSE IF stats[id].dueAt <= now THEN 0
    ELSE 2

Members(a) == {a[i] : i \in 1 .. Len(a)}

\* C4: in the session startSession returns, every Due item comes before every
\* Fresh item and every Fresh item before every Other item.
C4_PriorityOrder ==
    lastOp = "startSession" =>
        \A i, j \in 1 .. Len(quizSet) :
            i < j => Priority(quizSet[i]) <= Priority(quizSet[j])

\* a session holding a Due, a Fresh and an Other item
C4_Witness ==
    /\ lastOp = "startSession"
    /\ Len(quizSet) = 3
    /\ Priority(quizSet[1]) = 0
    /\ Priority(quizSet[2]) = 1
    /\ Priority(quizSet[3]) = 2

\* C5 as stated: the session has length min(n, length(pool)) for n > 0 and
\* length 0 when the pool is empty or n <= 0, negative n included.
C5_LengthBound ==
    lastOp = "startSession" =>
        Len(quizSet) = (IF numQuestions > 0 /\ Len(pool) > 0
                        THEN (IF numQuestions < Len(pool) THEN numQuestions ELSE Len(pool))
                        ELSE 0)

\* C6: every pool item lands in exactly one bucket: Fresh iff it has no stat,
\* Due iff it has a stat with dueAt <= now (equality counts as Due), Other iff
\* it has a stat with dueAt > now; the session holds only pool items, none twice.
C6_Partition ==
    LET b == Buckets(pool, stats, now) IN
    /\ \A id \in Members(pool) :
          /\ id \in Members(b.fresh) <=> ~HasStat(id)
          /\ id \in Members(b.due) <=> (HasStat(id) /\ stats[id].dueAt <= now)
          /\ id \in Members(b.other) <=> (HasStat(id) /\ stats[id].dueAt > now)
    /\ Len(b.due) + Len(b.fresh) + Len(b.other) = Len(pool)
    /\ lastOp = "startSession" =>
          /\ Members(quizSet) \subseteq Members(pool)
          /\ \A i, j \in 1 .. Len(quizSet) : quizSet[i] = quizSet[j] => i = j

\* an item due exactly now is in the Due bucket and leads the session
C6_Witness ==
    /\ lastOp = "startSession"
    /\ Len(quizSet) = 3
    /\ HasStat(quizSet[1])
    /\ stats[quizSet[1]].dueAt = now
    /\ quizSet[1] \in Members(Buckets(pool, stats, now).due)
    /\ ~HasStat(quizSet[2])

----------------------------------------------------------------------------
(* Properties of the quiz driver, checked under Spec *)

C14_SessionListFixed ==
    [][lastOp' # "startSession" => quizSet' = quizSet]_vars

\* a two-item session after an answer, an auto-advance and a stats reset
C14_Witness ==
    /\ Len(quizSet) = 2
    /\ qIdx = 1
    /\ score = 1
    /\ lastOp = "resetSRS"

\* C18: the stat map starts without entries; an entry appears or changes
\* only by an answer to its item, which always leaves an entry for that item;
\* no step other than the full reset removes an entry, and the reset removes
\* all of them.
C18_StatEntries ==
    /\ stats = EmptyStats
    /\ [][/\ lastOp' = "resetSRS" => stats' = EmptyStats
          /\ lastOp' # "resetSRS" =>
                /\ DOMAIN stats \subseteq DOMAIN stats'
                /\ \A id \in DOMAIN stats' :
                      (id \notin DOMAIN stats \/ stats'[id] # stats[id]) =>
                          /\ lastOp' = "judge"
                          /\ qIdx < Len(quizSet)
                          /\ id = quizSet[qIdx + 1]
          /\ lastOp' = "judge" => quizSet[qIdx + 1] \in DOMAIN stats']_vars

\* both items have their entries, kept across an answer to the other item
\* and the start of another session
C18_Witness ==
    /\ DOMAIN stats = {"a", "b"}
    /\ stats["a"].last < stats["b"].last
    /\ lastOp = "startSession"

\* C19: startSession on an empty pool leaves an empty session, and while the
\* session is empty no driver operation (judge, nextQuestion, the timer)
\* raises.
C19_EmptySessionSafe ==
    /\ (lastOp = "startSession" /\ Len(pool) = 0) => Len(quizSet) = 0
    /\ Len(quizSet) = 0 => lastOp # "judgeThrows"

\* C22: a correct answer schedules the auto-advance, which runs once and
\* moves to the next question or to the finished state; after an incorrect
\* answer the driver stays on the answered question (same qIdx, not newly
\* finished) until nextQuestion is invoked or another session is started.
C22_AutoAdvance ==
    [][/\ (lastOp' = "judge" /\ feedback' = "correct") => timer'.pending
       /\ lastOp' = "timer" =>
             /\ timer.pending /\ ~timer'.pending
             /\ \/ qIdx' = qIdx + 1 /\ finished' = finished
                \/ qIdx' = qIdx /\ finished'
       /\ (isAnswered /\ feedback = "incorrect"
              /\ (qIdx' # qIdx \/ finished' # finished)) =>
             lastOp' \in {"nextQuestion", "startSession"}]_vars

\* C23: an item whose last answer was incorrect (reps 0 in its entry) is a
\* Due item for a session composed at the instant of that answer.
C23_IncorrectIsDue ==
    \A id \in DOMAIN stats :
        (stats[id].reps = 0 /\ stats[id].last = now) =>
            Buckets(<<id>>, stats, now).due = <<id>>

\* C25: in a session that has just been started and in which nothing has
\* been answered yet, qIdx stays 0 and finished stays false under every step
\* that is not an answer, a nextQuestion call or another startSession: a
\* timer left by the previous session does not act on the new one.
C25_NoTimerLeak ==
    [][(/\ Len(quizSet) > 0 /\ qIdx = 0 /\ ~isAnswered /\ score = 0 /\ ~finished
        /\ lastOp' \notin {"judge", "nextQuestion", "startSession"}) =>
            (qIdx' = 0 /\ ~finished')]_vars

\* C26: an answer replaces the entry of the current question's id by
\* nextSRS(old entry, 4) when it is correct and by nextSRS(old entry, 1) when
\* it is not, adds 1 to the score exactly when it is correct and leaves every
\* other entry as it was; a judge call on an answered question changes
\* nothing.
C26_JudgeFrame ==
    [][/\ lastOp' = "judge" =>
             LET id  == quizSet[qIdx + 1]
                 old == StatOf(stats, id)
             IN  /\ ~isAnswered /\ isAnswered'
                 /\ feedback' \in {"correct", "incorrect"}
                 /\ feedback' = "correct" =>
                       (stats'[id] = nextSRS(old, 4, now) /\ score' = score + 1)
                 /\ feedback' = "incorrect" =>
                       (stats'[id] = nextSRS(old, 1, now) /\ score' = score)
                 /\ DOMAIN stats' = DOMAIN stats \cup {id}
                 /\ \A other \in DOMAIN stats \ {id} : stats'[other] = stats[other]
                 /\ UNCHANGED <<quizSet, qIdx, finished>>
       /\ lastOp' = "judgeIgnored" =>
             (isAnswered /\ UNCHANGED <<stats, score, quizSet, qIdx, feedback,
                                        isAnswered, finished, timer, storage>>)]_vars

\* an incorrect answer to "b" after a correct one to "a", whose entry is kept
C26_Witness ==
    /\ lastOp = "judge"
    /\ feedback = "incorrect"
    /\ quizSet[qIdx + 1] = "b"
    /\ score = 1
    /\ DOMAIN stats = {"a", "b"}
    /\ stats["a"].reps = 1 /\ stats["b"].reps = 0

\* C27: right after any startSession, one on an empty pool included, the
\* progress state is fresh: qIdx = 0, score = 0, not finished, not answered,
\* no feedback.
C27_FreshProgress ==
    lastOp = "startSession" =>
        /\ qIdx = 0
        /\ score = 0
        /\ ~finished
        /\ ~isAnswered
        /\ feedback = ""

\* C29: a map of stats that nextSRS produced and the save effect has stored
\* comes back equal when the App is opened again, however many entries it
\* has: no entry is dropped or altered, and the stored item is the same.
C29_RoundTripLossless ==
    [][lastOp' = "mount" => (stats' = stats /\ storage' = storage)]_vars

\* C30: whenever the session has questions, qIdx is an index of quizSet
\* (0 <= qIdx < quizSet.length), whatever the order of judge, nextQuestion,
\* startSession and timer callbacks.
C30_IndexInRange ==
    Len(quizSet) > 0 => (0 <= qIdx /\ qIdx < Len(quizSet))

----------------------------------------------------------------------------
(* Properties of one session worked through, checked under SpecLearner *)

----------------------------------------------------------------------------
(* Properties of loading, checked under SpecLoad *)

\* the ReviewStat invariants on a stored entry
ValidRecord(value) ==
    /\ value.kind = "object"
    /\ \A f \in StatFields : IsNumber(value, f)
    /\ value.map["ef"].val >= 130 /\ value.map["ef"].val <= 250
    /\ value.map["reps"].val >= 0 /\ value.map["reps"].val % 2 = 0
    /\ value.map["interval"].val >= 0 /\ value.map["interval"].val % 2 = 0
    /\ value.map["dueAt"].val =
          value.map["last"].val + (value.map["interval"].val \div 2) * DayMs

\* the entries of the stored item, none when it is not a JSON object
StoredMap ==
    IF storage.kind = "json" /\ storage.data.kind = "object"
    THEN storage.data.map
    ELSE EmptyObject.map

\* C16: a load returns the map of exactly the stored records that satisfy
\* the ReviewStat invariants (all five fields numbers, ef in [1.3, 2.5], reps
\* and interval non-negative integers, dueAt = last + interval x 86,400,000):
\* every valid record is kept as stored, every other record is dropped.
C16_LoadFilters ==
    stOp \in {"loadEffect", "loadStats"} =>
        loaded = JsonObject([k \in {j \in DOMAIN StoredMap : ValidRecord(StoredMap[j])} |->
                               StoredMap[k]])

----------------------------------------------------------------------------
(* Properties of the App on a failing store, checked under SpecStore *)

\* C17: storage failures are not fatal: when reads fail the load gives the
\* empty map, and a failing write raises nothing (no effect or call ends with
\* an exception), so that the driver goes on answering from the stats in
\* memory.
C17_StorageFailureNotFatal ==
    /\ ("read" \in storeFails /\ stOp # "none") => loaded = EmptyObject
    /\ stOp # "saveThrows"

====
